---- MODULE Spec2Model ----
(***************************************************************************)
(* Model of package sloghandler (src/log.go, lines 1-122): the             *)
(* LogFormatHandler, its Handle / Enabled / WithAttrs / WithGroup methods  *)
(* and NewLogFormatHandler, run by concurrent goroutines.                  *)
(*                                                                         *)
(* Go values are modelled by what the language does with them:             *)
(*   - a slice is a (backing array, len, cap) triple over a heap of        *)
(*     arrays, and append grows or writes in place as the runtime does;    *)
(*   - a sync.RWMutex is a struct of counters, and a struct literal        *)
(*     "mu: h.mu" copies those counters into the new handler;              *)
(*   - io.Writer.Write is not atomic: it appends the buffer in two parts.  *)
(***************************************************************************)
EXTENDS Integers, Sequences, FiniteSets, TLC

VARIABLES handlers, arrays, dest, th, hist, born

vars == <<handlers, arrays, dest, th, hist, born>>

(***************************************************************************)
(* Bounds of the model.                                                    *)
(***************************************************************************)
NumThreads == 2
MaxHandlers == 2
MaxWrites == 2
MaxChain == 5
MaxFamily == 4
MaxRender == 2
MaxLines == 1

Threads == 1..NumThreads

(***************************************************************************)
(* Values of the program.                                                  *)
(***************************************************************************)
LevelDebug == -4
LevelInfo == 0
LevelError == 8

Levels == {LevelInfo, LevelError}

DefaultTimeFormat == "2006/01/02 15:04:05"

TimeFormats == {"", "15:04:05"}

NoErr == "nil"
WriteErrs == {"EIO"}

Attr(k, v) == [key |-> k, val |-> v]
ZeroAttr == Attr("", "")

AttrArgs == {<<Attr("app", "testApp")>>,
             <<Attr("env", "production")>>,
             <<Attr("", "anon"), Attr("code", "123")>>}

GroupArgs == {"TestGroup", ""}

GroupNames == GroupArgs \cup {"Inner"}

Writers == {"w", "v"}

TheTime == [date |-> "2025/01/11", clock |-> "12:00:00"]

Record(l, m, a) == [time |-> TheTime, level |-> l, msg |-> m, attrs |-> a]

Records == {Record(LevelDebug, "Should not log", <<>>),
            Record(LevelError, "Error occurred", <<Attr("key", "value")>>)}

\* records with no attribute, with several, with an attribute without a key,
\* and with a message of two lines
RenderRecords ==
  Records \cup
  {Record(LevelInfo, "Test message", <<>>),
   Record(LevelInfo, "Group message",
          <<Attr("", "nokey"), Attr("a", "1"), Attr("b", "2")>>),
   Record(LevelError, "first\nsecond", <<>>)}

(***************************************************************************)
(* Go slices: []slog.Attr over the heap of backing arrays.                 *)
(***************************************************************************)
NilSlice == [arr |-> 0, len |-> 0, cap |-> 0]

Elems(arrs, s) == IF s.arr = 0 THEN <<>> ELSE SubSeq(arrs[s.arr], 1, s.len)

SizeClasses == {8, 16, 24, 32, 48, 64, 80, 96, 112, 128, 144, 160, 176, 192,
                208, 224, 240, 256, 288, 320, 352, 384, 416, 448, 480, 512,
                576, 640, 704, 768, 896, 1024}

roundupsize(size) ==
  IF \E c \in SizeClasses : c >= size
    THEN CHOOSE c \in SizeClasses :
           c >= size /\ \A d \in SizeClasses : d >= size => c <= d
    ELSE size

RECURSIVE growLoop(_, _)
growLoop(newcap, newLen) ==
  IF newcap >= newLen THEN newcap
  ELSE growLoop(newcap + ((newcap + 768) \div 4), newLen)

nextslicecap(newLen, oldCap) ==
  IF newLen > 2 * oldCap THEN newLen
  ELSE IF oldCap < 256 THEN 2 * oldCap
  ELSE growLoop(oldCap, newLen)

\* the capacity of the array append allocates: slog.Attr is 40 bytes wide
growcap(newLen, oldCap) == roundupsize(nextslicecap(newLen, oldCap) * 40) \div 40

\* append(s, xs...): the resulting slice and the heap after it
appendInPlace(arrs, s, xs) ==
  [slice |-> [s EXCEPT !.len = s.len + Len(xs)],
   arrs  |-> IF Len(xs) = 0 THEN arrs
             ELSE [arrs EXCEPT ![s.arr] =
                     [i \in 1..s.cap |->
                        IF i > s.len /\ i <= s.len + Len(xs)
                          THEN xs[i - s.len] ELSE @[i]]]]

appendGrow(arrs, s, xs) ==
  LET n == s.len + Len(xs)
      c == growcap(n, s.cap)
      old == Elems(arrs, s)
  IN [slice |-> [arr |-> Len(arrs) + 1, len |-> n, cap |-> c],
      arrs  |-> Append(arrs, [i \in 1..c |->
                                IF i <= s.len THEN old[i]
                                ELSE IF i <= n THEN xs[i - s.len]
                                ELSE ZeroAttr])]

append(arrs, s, xs) ==
  IF s.len + Len(xs) <= s.cap THEN appendInPlace(arrs, s, xs)
  ELSE appendGrow(arrs, s, xs)

(***************************************************************************)
(* sync.RWMutex: w is the writer mutex (held from Lock to Unlock, during   *)
(* which readerCount is negative), readers the number of RLock calls not   *)
(* yet RUnlocked, readerWait the readers a writer still waits for, and the *)
(* two semaphores.  The zero value is an unlocked mutex.                   *)
(***************************************************************************)
ZeroMutex == [w |-> FALSE, readers |-> 0, readerWait |-> 0,
              writerSem |-> 0, readerSem |-> 0]

\* Lock(): blocks while another writer holds w; then announces the writer
\* and, when readers are active, has to wait for them on writerSem
CanLockNoExclusion(mu) == TRUE

CanLock(mu) == ~mu.w

Lock(mu) ==
  [mu EXCEPT !.w = TRUE,
             !.readerWait = IF mu.readers # 0 THEN @ + mu.readers ELSE @]

LockMustWait(mu) == mu.readers # 0 /\ mu.readerWait + mu.readers # 0

\* Unlock(): readerCount becomes positive again, every blocked reader is
\* released, then w is unlocked
Unlock(mu) == [mu EXCEPT !.w = FALSE, !.readerSem = @ + mu.readers]

\* RLock(): counts the reader in; it has to wait when a writer is pending
RLock(mu) == [mu EXCEPT !.readers = @ + 1]

RLockMustWait(mu) == mu.w

\* RUnlock(): counts the reader out; the last reader a pending writer waits
\* for wakes the writer
RUnlock(mu) ==
  IF mu.w
    THEN [mu EXCEPT !.readers = @ - 1,
                    !.readerWait = @ - 1,
                    !.writerSem = IF mu.readerWait - 1 = 0 THEN @ + 1 ELSE @]
    ELSE [mu EXCEPT !.readers = @ - 1]

(***************************************************************************)
(* The formatter of Handle (lines 35-66): the line as the sequence of      *)
(* strings written to the buffer.                                          *)
(***************************************************************************)
\* time.Time.Format(layout) for the layouts in use
TimeFormat(t, layout) ==
  IF layout = DefaultTimeFormat THEN <<t.date, " ", t.clock>>
  ELSE IF layout = "15:04:05" THEN <<t.clock>>
  ELSE <<layout>>

\* slog.Level.String() for the named levels
LevelString(l) ==
  IF l = LevelDebug THEN "DEBUG"
  ELSE IF l = LevelInfo THEN "INFO"
  ELSE IF l = LevelError THEN "ERROR"
  ELSE "LEVEL"

\* strings.ToUpper on the strings in use
ToUpper(s) ==
  IF s = "debug" THEN "DEBUG"
  ELSE IF s = "info" THEN "INFO"
  ELSE IF s = "error" THEN "ERROR"
  ELSE s

HasKeyAlways(a) == TRUE

\* lines 53 and 61: if a.Key != ""
HasKey(a) == a.key # ""

\* fmt.Sprintf(" %s=%v", a.Key, a.Value) for the attributes with a key
RECURSIVE FormatAttrs(_)
FormatAttrs(as) ==
  IF as = <<>> THEN <<>>
  ELSE (IF HasKey(as[1]) THEN <<" ", as[1].key, "=", as[1].val>> ELSE <<>>)
       \o FormatAttrs(Tail(as))

\* a formatter that writes the group segment whatever the group is
FormatGroupAlways(h, r, arrs) ==
  TimeFormat(r.time, h.timeFormat)
  \o <<" ", ToUpper(LevelString(r.level)), " ">>
  \o <<"[", h.group, "] ">>
  \o <<r.msg>>
  \o FormatAttrs(r.attrs)
  \o FormatAttrs(Elems(arrs, h.attrs))
  \o <<"\n">>

\* lines 35-66
Format(h, r, arrs) ==
  TimeFormat(r.time, h.timeFormat)
  \o <<" ", ToUpper(LevelString(r.level)), " ">>
  \o (IF h.group # "" THEN <<"[", h.group, "] ">> ELSE <<>>)
  \o <<r.msg>>
  \o FormatAttrs(r.attrs)
  \o FormatAttrs(Elems(arrs, h.attrs))
  \o <<"\n">>

(***************************************************************************)
(* NewLogFormatHandler (lines 112-122).                                    *)
(***************************************************************************)
\* a constructor without the default of lines 113-115
NewLogFormatHandlerAsGiven(level, writer, timeFormat) ==
  [level      |-> level,
   writer     |-> writer,
   attrs      |-> NilSlice,
   group      |-> "",
   timeFormat |-> timeFormat,
   mu         |-> ZeroMutex]

NewLogFormatHandler(level, writer, timeFormat) ==
  [level      |-> level,
   writer     |-> writer,
   attrs      |-> NilSlice,
   group      |-> "",
   timeFormat |-> IF timeFormat = "" THEN DefaultTimeFormat ELSE timeFormat,
   mu         |-> ZeroMutex]

(***************************************************************************)
(* Goroutines.  th[t] is the frame of the call goroutine t is in, with res *)
(* the value the call is about to return once it is evaluated, seen the    *)
(* number of admitted Handle calls that had returned when the call was     *)
(* made, and lo and hi the lengths of the destination before the first and *)
(* after the last byte the call has written; hist is the                   *)
(* admitted Handle calls that have returned, in that order; born[i] is how *)
(* handler i was made: from which handler, by which call, with which       *)
(* argument (arg), with which attributes (own), and snap, the attributes   *)
(* of its parent when the call was made followed by its own.               *)
(***************************************************************************)
NilRet == [kind |-> "nil"]
BoolRet(b) == [kind |-> "bool", val |-> b]
HandlerRet(i) == [kind |-> "handler", id |-> i]
\* fmt.Errorf("failed to write log: %w", err)
ErrorRet(e) == [kind |-> "error", msg |-> "failed to write log: ", wraps |-> e]

NoRet == [kind |-> "none"]

IdleFrame == [pc |-> "idle", h |-> 0, arg |-> <<>>, buf |-> <<>>,
              err |-> NoErr, nw |-> 0, wbuf |-> <<>>, tmp |-> NilSlice,
              snap |-> <<>>, res |-> NoRet, seen |-> 0, lo |-> 0, hi |-> 0]


Init ==
  /\ \E l \in {LevelInfo, LevelError} :
       handlers = <<NewLogFormatHandler(l, "w", DefaultTimeFormat)>>
  /\ arrays = <<>>
  /\ dest = <<>>
  /\ th = [t \in Threads |-> IdleFrame]
  /\ hist = <<>>
  /\ born = <<[from |-> 0, op |-> "New", own |-> <<>>, snap |-> <<>>,
               arg |-> [level |-> handlers[1].level, writer |-> "w",
                        timeFormat |-> DefaultTimeFormat]]>>

HandlerIds == 1..Len(handlers)

\* calls of Handle that were admitted and have not yet returned
InHandle(t) == th[t].pc \in {"lock", "lockwait", "write", "write2", "unlock"}
\* between the call of writer.Write and its return
InWrite(t) == th[t].pc = "write2"
Deriving(t) == th[t].pc \in {"wa_new", "wg_new"}

(***************************************************************************)
(* Handle (lines 30-76).                                                   *)
(***************************************************************************)
AdmittedAlways(h, r) == TRUE

\* lines 31-33
Admitted(h, r) == ~(r.level < h.level)

\* lines 31-66: the level check and the formatting into buf
HandleCall(t, h, r) ==
  /\ th[t].pc = "idle"
  /\ h \in HandlerIds
  /\ IF Admitted(handlers[h], r)
       THEN th' = [th EXCEPT ![t] =
                     [IdleFrame EXCEPT !.pc = "lock", !.h = h, !.arg = r,
                                       !.buf = Format(handlers[h], r, arrays),
                                       !.seen = Len(hist)]]
       ELSE th' = [th EXCEPT ![t] =
                     [IdleFrame EXCEPT !.pc = "skip", !.h = h, !.arg = r,
                                       !.res = NilRet]]
  /\ UNCHANGED <<handlers, arrays, dest, hist, born>>

\* line 32: return nil
HandleSkip(t) ==
  /\ th[t].pc = "skip"
  /\ th' = [th EXCEPT ![t] = IdleFrame]
  /\ UNCHANGED <<handlers, arrays, dest, hist, born>>

\* line 69: h.mu.Lock()
HandleLock(t) ==
  /\ th[t].pc = "lock"
  /\ LET h == th[t].h
         mu == handlers[h].mu
     IN /\ CanLock(mu)
        /\ handlers' = [handlers EXCEPT ![h].mu = Lock(mu)]
        /\ th' = [th EXCEPT ![t].pc =
                    IF LockMustWait(mu) THEN "lockwait" ELSE "write"]
  /\ UNCHANGED <<arrays, dest, hist, born>>

\* line 69: the writer waits until the active readers have left
HandleLockWait(t) ==
  /\ th[t].pc = "lockwait"
  /\ LET h == th[t].h
     IN /\ handlers[h].mu.writerSem > 0
        /\ handlers' = [handlers EXCEPT ![h].mu.writerSem = @ - 1]
        /\ th' = [th EXCEPT ![t].pc = "write"]
  /\ UNCHANGED <<arrays, dest, hist, born>>

\* the two parts in which the destination takes a buffer
Part1(buf) == SubSeq(buf, 1, Len(buf) - 1)
Part2(buf) == SubSeq(buf, Len(buf), Len(buf))

HandleResultSwallowed(err) == NilRet

\* lines 71-75: the value Handle returns after the write
HandleResult(err) == IF err # NoErr THEN ErrorRet(err) ELSE NilRet

AfterWriteRetry(f, err) ==
  IF err # NoErr /\ f.nw < 2
    THEN [f EXCEPT !.pc = "write"]
    ELSE [f EXCEPT !.pc = "unlock", !.err = err, !.res = HandleResult(err)]

\* the frame once Write has returned err: the return value is evaluated and
\* the deferred Unlock is still to run
AfterWrite(f, err) ==
  [f EXCEPT !.pc = "unlock", !.err = err, !.res = HandleResult(err)]

\* a destination that puts what it is given in front of what it holds
WriteBeginInFront(t) ==
  /\ th[t].pc = "write"
  /\ LET f == [th[t] EXCEPT !.nw = @ + 1, !.wbuf = th[t].buf,
                            !.lo = Len(dest), !.hi = Len(dest)]
     IN \/ /\ dest' = Part1(f.wbuf) \o dest
           /\ th' = [th EXCEPT ![t] = [f EXCEPT !.pc = "write2",
                                                !.hi = Len(dest')]]
        \/ \E e \in WriteErrs :
             /\ dest' = dest
             /\ th' = [th EXCEPT ![t] = AfterWrite(f, e)]
  /\ UNCHANGED <<handlers, arrays, hist, born>>

\* line 71: h.writer.Write(buf.Bytes()) is called; the destination takes the
\* first part of the buffer, or fails before taking anything
WriteBegin(t) ==
  /\ th[t].pc = "write"
  /\ LET f == [th[t] EXCEPT !.nw = @ + 1, !.wbuf = th[t].buf,
                            !.lo = Len(dest), !.hi = Len(dest)]
     IN \/ /\ dest' = dest \o Part1(f.wbuf)
           /\ th' = [th EXCEPT ![t] = [f EXCEPT !.pc = "write2",
                                                !.hi = Len(dest')]]
        \/ \E e \in WriteErrs :
             /\ dest' = dest
             /\ th' = [th EXCEPT ![t] = AfterWrite(f, e)]
  /\ UNCHANGED <<handlers, arrays, hist, born>>

\* line 71: Write returns, having taken the rest of the buffer, or fails
\* after a short write
WriteEnd(t) ==
  /\ th[t].pc = "write2"
  /\ \/ /\ dest' = dest \o Part2(th[t].wbuf)
        /\ th' = [th EXCEPT ![t] = AfterWrite([th[t] EXCEPT !.hi = Len(dest')], NoErr)]
     \/ \E e \in WriteErrs :
          /\ dest' = dest
          /\ th' = [th EXCEPT ![t] = AfterWrite(th[t], e)]
  /\ UNCHANGED <<handlers, arrays, hist, born>>

UnlockOnSuccess(mu, err) == IF err = NoErr THEN Unlock(mu) ELSE mu

\* line 70: the deferred h.mu.Unlock() runs whatever the write returned
DeferredUnlock(mu, err) == Unlock(mu)

\* lines 70-75: return, running the deferred Unlock
HandleReturn(t) ==
  /\ th[t].pc = "unlock"
  /\ LET h == th[t].h
         f == th[t]
     IN /\ handlers' = [handlers EXCEPT ![h].mu = DeferredUnlock(@, f.err)]
        /\ th' = [th EXCEPT ![t] = IdleFrame]
        /\ hist' = Append(hist, [h |-> h, buf |-> f.buf, wbuf |-> f.wbuf,
                                 nw |-> f.nw, err |-> f.err, res |-> f.res,
                                 seen |-> f.seen, lo |-> f.lo, hi |-> f.hi])
  /\ UNCHANGED <<arrays, dest, born>>

(***************************************************************************)
(* Enabled (lines 79-83).                                                  *)
(***************************************************************************)
EnabledResultStrict(h, level) == level > h.level

\* line 82
EnabledResult(h, level) == level >= h.level

\* lines 80-82: h.mu.RLock(); once it has the read lock the call evaluates
\* its return value, and the deferred RUnlock is still to run
EnabledCall(t, h, level) ==
  /\ th[t].pc = "idle"
  /\ h \in HandlerIds
  /\ LET mu == handlers[h].mu
     IN /\ handlers' = [handlers EXCEPT ![h].mu = RLock(mu)]
        /\ th' = [th EXCEPT ![t] =
                    IF RLockMustWait(mu)
                      THEN [IdleFrame EXCEPT !.pc = "rlockwait", !.h = h,
                                             !.arg = level]
                      ELSE [IdleFrame EXCEPT !.pc = "rheld", !.h = h,
                                             !.arg = level,
                                             !.res = BoolRet(EnabledResult(handlers[h], level))]]
  /\ UNCHANGED <<arrays, dest, hist, born>>

\* line 80: the reader blocked by a writer is released by that writer's Unlock
EnabledWake(t) ==
  /\ th[t].pc = "rlockwait"
  /\ LET h == th[t].h
     IN /\ handlers[h].mu.readerSem > 0
        /\ handlers' = [handlers EXCEPT ![h].mu.readerSem = @ - 1]
        /\ th' = [th EXCEPT ![t].pc = "rheld",
                            ![t].res = BoolRet(EnabledResult(handlers[h], th[t].arg))]
  /\ UNCHANGED <<arrays, dest, hist, born>>

\* lines 81-82: return, running the deferred RUnlock
EnabledReturn(t) ==
  /\ th[t].pc = "rheld"
  /\ LET h == th[t].h
     IN /\ handlers' = [handlers EXCEPT ![h].mu = RUnlock(@)]
        /\ th' = [th EXCEPT ![t] = IdleFrame]
  /\ UNCHANGED <<arrays, dest, hist, born>>

(***************************************************************************)
(* WithAttrs (lines 86-96) and WithGroup (lines 99-108).                   *)
(***************************************************************************)
\* h.attrs = append(h.attrs, attrs...): the receiver keeps the new slice
WithAttrsAppendAssign(t, h, attrs) ==
  /\ th[t].pc = "idle"
  /\ h \in HandlerIds
  /\ LET a == append(arrays, handlers[h].attrs, attrs)
     IN /\ arrays' = a.arrs
        /\ handlers' = [handlers EXCEPT ![h].attrs = a.slice]
        /\ th' = [th EXCEPT ![t] =
                    [IdleFrame EXCEPT !.pc = "wa_new", !.h = h, !.arg = attrs,
                                      !.tmp = a.slice,
                                      !.snap = Elems(arrays, handlers[h].attrs) \o attrs]]
  /\ UNCHANGED <<dest, hist, born>>

\* line 87: newAttrs := append(h.attrs, attrs...)
WithAttrsAppend(t, h, attrs) ==
  /\ th[t].pc = "idle"
  /\ h \in HandlerIds
  /\ LET a == append(arrays, handlers[h].attrs, attrs)
     IN /\ arrays' = a.arrs
        /\ th' = [th EXCEPT ![t] =
                    [IdleFrame EXCEPT !.pc = "wa_new", !.h = h, !.arg = attrs,
                                      !.tmp = a.slice,
                                      !.snap = Elems(arrays, handlers[h].attrs) \o attrs]]
  /\ UNCHANGED <<handlers, dest, hist, born>>

\* lines 88-95: the handler WithAttrs returns
WithAttrsHandler(h, newAttrs) ==
  [level      |-> h.level,
   writer     |-> h.writer,
   attrs      |-> newAttrs,
   group      |-> h.group,
   timeFormat |-> h.timeFormat,
   mu         |-> h.mu]

CanDeriveUnlocked(mu) == ~mu.w

\* lines 86-108: what WithAttrs and WithGroup wait for: nothing, no lock
CanDerive(mu) == TRUE

WithAttrsNew(t) ==
  /\ th[t].pc = "wa_new"
  /\ LET h == th[t].h
     IN /\ CanDerive(handlers[h].mu)
        /\ handlers' = Append(handlers, WithAttrsHandler(handlers[h], th[t].tmp))
        /\ born' = Append(born, [from |-> h, op |-> "WithAttrs", own |-> th[t].arg,
                                 snap |-> th[t].snap, arg |-> th[t].arg])
        /\ th' = [th EXCEPT ![t] = IdleFrame]
  /\ UNCHANGED <<arrays, dest, hist>>

\* line 99: WithGroup is entered
WithGroupCall(t, h, name) ==
  /\ th[t].pc = "idle"
  /\ h \in HandlerIds
  /\ th' = [th EXCEPT ![t] =
              [IdleFrame EXCEPT !.pc = "wg_new", !.h = h, !.arg = name]]
  /\ UNCHANGED <<handlers, arrays, dest, hist, born>>

\* a WithGroup that builds the handler anew, with the default time format
WithGroupHandlerDefaults(h, name) ==
  [level      |-> h.level,
   writer     |-> h.writer,
   attrs      |-> h.attrs,
   group      |-> name,
   timeFormat |-> DefaultTimeFormat,
   mu         |-> h.mu]

\* a WithGroup that nests the name under the group of the receiver
WithGroupHandlerNested(h, name) ==
  [level      |-> h.level,
   writer     |-> h.writer,
   attrs      |-> h.attrs,
   group      |-> IF h.group = "" THEN name ELSE h.group \o "." \o name,
   timeFormat |-> h.timeFormat,
   mu         |-> h.mu]

\* lines 100-107: the handler WithGroup returns
WithGroupHandler(h, name) ==
  [level      |-> h.level,
   writer     |-> h.writer,
   attrs      |-> h.attrs,
   group      |-> name,
   timeFormat |-> h.timeFormat,
   mu         |-> h.mu]

WithGroupNew(t) ==
  /\ th[t].pc = "wg_new"
  /\ LET h == th[t].h
     IN /\ CanDerive(handlers[h].mu)
        /\ handlers' = Append(handlers, WithGroupHandler(handlers[h], th[t].arg))
        /\ born' = Append(born, [from |-> h, op |-> "WithGroup", own |-> <<>>,
                                 snap |-> Elems(arrays, handlers[h].attrs),
                                 arg |-> th[t].arg])
        /\ th' = [th EXCEPT ![t] = IdleFrame]
  /\ UNCHANGED <<arrays, dest, hist>>

(***************************************************************************)
(* The goroutines of the program: any number of calls, on any handler.     *)
(* The bounds cut the run: at most MaxHandlers handlers, MaxWrites         *)
(* admitted Handle calls.                                                  *)
(***************************************************************************)
RoomFor(max) == Len(handlers) + Cardinality({t \in Threads : Deriving(t)}) < max
WritesLeft == Len(hist) + Cardinality({t \in Threads : InHandle(t)}) < MaxWrites

Handle(t) ==
  \E h \in HandlerIds, r \in Records :
    /\ Admitted(handlers[h], r) => WritesLeft
    /\ HandleCall(t, h, r)

Enabled(t) == \E h \in HandlerIds, l \in Levels : EnabledCall(t, h, l)

WithAttrs(t) ==
  \E h \in HandlerIds, attrs \in {<<Attr("app", "testApp")>>} :
    RoomFor(MaxHandlers) /\ WithAttrsAppend(t, h, attrs)

WithGroup(t) ==
  \E h \in HandlerIds, name \in {"TestGroup"} :
    RoomFor(MaxHandlers) /\ WithGroupCall(t, h, name)

Next ==
  \E t \in Threads :
    \/ Handle(t)
    \/ HandleSkip(t)
    \/ HandleLock(t)
    \/ HandleLockWait(t)
    \/ WriteBegin(t)
    \/ WriteEnd(t)
    \/ HandleReturn(t)
    \/ Enabled(t)
    \/ EnabledWake(t)
    \/ EnabledReturn(t)
    \/ WithAttrs(t)
    \/ WithAttrsNew(t)
    \/ WithGroup(t)
    \/ WithGroupNew(t)

Spec == Init /\ [][Next]_vars

(***************************************************************************)
(* The same goroutines under a fair scheduler: a goroutine that can take   *)
(* its next step takes it, every Write call returns, and the mutex does    *)
(* not starve a goroutine that waits for it (a Lock, or a wake-up from a   *)
(* semaphore, that is possible again and again is granted).                *)
(***************************************************************************)
Runs(t) ==
  \/ HandleSkip(t)
  \/ WriteBegin(t)
  \/ WriteEnd(t)
  \/ HandleReturn(t)
  \/ EnabledReturn(t)
  \/ WithAttrsNew(t)
  \/ WithGroupNew(t)

Fairness ==
  \A t \in Threads :
    /\ WF_vars(Runs(t))
    /\ SF_vars(HandleLock(t))
    /\ SF_vars(HandleLockWait(t))
    /\ SF_vars(EnabledWake(t))

SpecLive == Init /\ [][Next]_vars /\ Fairness

(***************************************************************************)
(* One goroutine that only derives handlers, down to chains of MaxChain    *)
(* handlers, with every argument of AttrArgs and GroupArgs.                *)
(***************************************************************************)
DeriveAttrs ==
  \E h \in HandlerIds, attrs \in AttrArgs :
    RoomFor(MaxChain) /\ WithAttrsAppend(1, h, attrs)

DeriveGroup ==
  \E h \in HandlerIds, name \in GroupArgs :
    RoomFor(MaxChain) /\ WithGroupCall(1, h, name)

NextDerive ==
  \/ DeriveAttrs
  \/ WithAttrsNew(1)
  \/ DeriveGroup
  \/ WithGroupNew(1)

SpecDerive == Init /\ [][NextDerive]_vars

(***************************************************************************)
(* One goroutine that makes root handlers, with every level, writer and    *)
(* time format, and derives handlers from any of them, up to MaxFamily     *)
(* handlers in all.                                                        *)
(***************************************************************************)
\* lines 112-122: a call of NewLogFormatHandler, whose result is kept
NewHandler(t, level, writer, timeFormat) ==
  /\ th[t].pc = "idle"
  /\ handlers' = Append(handlers, NewLogFormatHandler(level, writer, timeFormat))
  /\ born' = Append(born, [from |-> 0, op |-> "New", own |-> <<>>, snap |-> <<>>,
                           arg |-> [level |-> level, writer |-> writer,
                                    timeFormat |-> timeFormat]])
  /\ UNCHANGED <<arrays, dest, th, hist>>

FamilyNew ==
  \E l \in Levels, w \in Writers, tf \in TimeFormats :
    RoomFor(MaxFamily) /\ NewHandler(1, l, w, tf)

FamilyAttrs ==
  \E h \in HandlerIds, attrs \in AttrArgs :
    RoomFor(MaxFamily) /\ WithAttrsAppend(1, h, attrs)

FamilyGroup ==
  \E h \in HandlerIds, name \in GroupNames :
    RoomFor(MaxFamily) /\ WithGroupCall(1, h, name)

NextFamily ==
  \/ FamilyNew
  \/ FamilyAttrs
  \/ WithAttrsNew(1)
  \/ FamilyGroup
  \/ WithGroupNew(1)

SpecFamily == Init /\ [][NextFamily]_vars

(***************************************************************************)
(* One goroutine that derives handlers, up to MaxRender handlers, and      *)
(* calls Handle on any of them with every record of RenderRecords, until   *)
(* MaxLines admitted calls have returned.                                  *)
(***************************************************************************)
LinesLeft == Len(hist) < MaxLines

RenderNew ==
  \E tf \in TimeFormats :
    LinesLeft /\ RoomFor(MaxRender) /\ NewHandler(1, LevelInfo, "w", tf)

RenderAttrs ==
  \E h \in HandlerIds, attrs \in AttrArgs :
    LinesLeft /\ RoomFor(MaxRender) /\ WithAttrsAppend(1, h, attrs)

RenderGroup ==
  \E h \in HandlerIds, name \in GroupArgs :
    LinesLeft /\ RoomFor(MaxRender) /\ WithGroupCall(1, h, name)

RenderHandle ==
  \E h \in HandlerIds, r \in RenderRecords :
    LinesLeft /\ HandleCall(1, h, r)

NextRender ==
  \/ RenderNew
  \/ RenderAttrs
  \/ WithAttrsNew(1)
  \/ RenderGroup
  \/ WithGroupNew(1)
  \/ RenderHandle
  \/ HandleSkip(1)
  \/ HandleLock(1)
  \/ WriteBegin(1)
  \/ WriteEnd(1)
  \/ HandleReturn(1)

SpecRender == Init /\ [][NextRender]_vars

(***************************************************************************)
(* One goroutine that derives handlers by WithAttrs only, down to chains   *)
(* of MaxChain handlers, and calls Handle on any of them, until MaxLines   *)
(* admitted calls have returned.                                           *)
(***************************************************************************)
ChainDerive ==
  \E h \in HandlerIds, attrs \in AttrArgs :
    LinesLeft /\ RoomFor(MaxChain) /\ WithAttrsAppend(1, h, attrs)

ChainHandle ==
  \E h \in HandlerIds, r \in Records :
    LinesLeft /\ HandleCall(1, h, r)

NextChain ==
  \/ ChainDerive
  \/ WithAttrsNew(1)
  \/ ChainHandle
  \/ HandleSkip(1)
  \/ HandleLock(1)
  \/ WriteBegin(1)
  \/ WriteEnd(1)
  \/ HandleReturn(1)

SpecChain == Init /\ [][NextChain]_vars

(***************************************************************************)
(* Properties.                                                             *)
(***************************************************************************)
RECURSIVE Concat(_)
Concat(lines) == IF lines = <<>> THEN <<>> ELSE lines[1] \o Concat(Tail(lines))

HistLines == [i \in 1..Len(hist) |-> hist[i].buf]

\* every handler of the model descends from handler 1: they are one family
RECURSIVE Root(_)
Root(h) == IF born[h].from = 0 THEN h ELSE Root(born[h].from)

\* C1: among the handlers of one family, at most one Handle call is inside
\* writer.Write on the shared destination at any time.
C1_OneWriteAtATime ==
  \A t1, t2 \in Threads :
    ( /\ InWrite(t1) /\ InWrite(t2)
      /\ Root(th[t1].h) = Root(th[t2].h)
      /\ handlers[th[t1].h].writer = handlers[th[t2].h].writer ) => t1 = t2

\* the Handle calls made so far have all returned, were all made on one
\* handler and had their writes accepted
C2_AllOnOneHandler ==
  /\ \A t \in Threads : ~InHandle(t)
  /\ \A i, j \in 1..Len(hist) : hist[i].h = hist[j].h
  /\ \A i \in 1..Len(hist) : hist[i].err = NoErr

\* C2: once the Handle calls made so far have all returned, were all made on
\* one handler and had their writes accepted, the destination holds exactly
\* their lines, each whole and once, one after the other.
C2_SameHandlerLines == C2_AllOnOneHandler => dest = Concat(HistLines)

C2_Witness ==
  /\ C2_AllOnOneHandler
  /\ Len(hist) >= 2
  /\ hist[1].h > 1

\* C3: the attributes a handler renders are those of its parent when it was
\* derived followed by its own, whatever is derived afterwards.
C3_AttrsFixed ==
  \A h \in HandlerIds : Elems(arrays, handlers[h].attrs) = born[h].snap

\* C4: a step of WithAttrs or WithGroup on a handler leaves that handler as
\* it was: its fields, the attributes it renders and every line Handle would
\* write for it.
C4_Derives(t) ==
  \/ th[t].pc = "idle" /\ th'[t].pc \in {"wa_new", "wg_new"}
  \/ th[t].pc \in {"wa_new", "wg_new"} /\ th'[t].pc = "idle"

C4_Parent(t) == IF th[t].pc = "idle" THEN th'[t].h ELSE th[t].h

C4_ParentUnchanged ==
  [][\A t \in Threads :
       C4_Derives(t) =>
         LET p == C4_Parent(t)
         IN /\ handlers'[p] = handlers[p]
            /\ Elems(arrays', handlers'[p].attrs) = Elems(arrays, handlers[p].attrs)
            /\ \A r \in Records :
                 Format(handlers'[p], r, arrays') = Format(handlers[p], r, arrays)]_vars

\* a child made by an append in place: it shares its parent's backing array
\* and renders more than the parent does
C4_Witness ==
  \E h \in HandlerIds :
    /\ born[h].op = "WithAttrs"
    /\ handlers[h].attrs.arr # 0
    /\ handlers[h].attrs.arr = handlers[born[h].from].attrs.arr
    /\ handlers[h].attrs.len > handlers[born[h].from].attrs.len
    /\ Elems(arrays, handlers[born[h].from].attrs) = born[born[h].from].snap

\* a call that cannot take its next step in this state
C5_Blocked(t) ==
  \/ th[t].pc = "rlockwait" /\ ~ENABLED EnabledWake(t)
  \/ th[t].pc = "wa_new" /\ ~ENABLED WithAttrsNew(t)
  \/ th[t].pc = "wg_new" /\ ~ENABLED WithGroupNew(t)

\* C5 as stated: Enabled, WithAttrs and WithGroup are never held up, whatever
\* the other goroutines are doing.
C5_NeverBlocked == \A t \in Threads : ~C5_Blocked(t)

\* C5, amended: WithAttrs and WithGroup are never held up, also while a
\* Handle call on the same handler is inside the write; Enabled takes the
\* read lock of its handler and is held up only while that handler's mutex
\* is write-locked.
C5_OnlyEnabledWaitsForWriter ==
  \A t \in Threads :
    /\ Deriving(t) => ~C5_Blocked(t)
    /\ C5_Blocked(t) => th[t].pc = "rlockwait" /\ handlers[th[t].h].mu.w

\* a derivation under way on a handler whose lock a Handle call holds, inside
\* the write
C5_Witness ==
  \E t1, t2 \in Threads :
    /\ Deriving(t1)
    /\ InWrite(t2)
    /\ th[t1].h = th[t2].h

\* where a call of Handle can be after its first step
C6_HandlePcs == {"skip", "lock", "lockwait", "write", "write2", "unlock"}

\* C6: a Handle call with a record below the handler's level returns nil at
\* once: it writes nothing and takes no lock.
C6_BelowThresholdNoOp ==
  [][\A t \in Threads :
       /\ ( /\ th[t].pc = "idle"
            /\ th'[t].pc \in C6_HandlePcs
            /\ th'[t].arg.level < handlers[th'[t].h].level )
          => /\ th'[t].pc = "skip"
             /\ th'[t].res = NilRet
             /\ th'[t].nw = 0
             /\ dest' = dest
             /\ handlers' = handlers
       /\ (th[t].pc = "skip" /\ th'[t] # th[t])
          => /\ th'[t].pc = "idle"
             /\ dest' = dest
             /\ handlers' = handlers]_vars

\* a call below the level returns while another call on the same handler
\* holds the lock, inside the write
C6_Witness ==
  \E t1, t2 \in Threads :
    /\ th[t1].pc = "skip"
    /\ th[t1].arg.level < handlers[th[t1].h].level
    /\ th[t1].res = NilRet
    /\ InWrite(t2)
    /\ th[t2].h = th[t1].h

\* C7: Enabled(L) returns true exactly when L is at least the level of the
\* handler, root or derived.
C7_EnabledIffAtLeast ==
  \A t \in Threads :
    th[t].pc = "rheld" =>
      /\ th[t].res.kind = "bool"
      /\ th[t].res.val <=> (th[t].arg >= handlers[th[t].h].level)

C7_Witness ==
  \E t1, t2 \in Threads :
    /\ th[t1].pc = "rheld" /\ th[t2].pc = "rheld"
    /\ th[t1].h > 1
    /\ th[t1].arg = handlers[th[t1].h].level
    /\ th[t1].res = BoolRet(TRUE)
    /\ th[t2].res = BoolRet(FALSE)

\* the admitted Handle calls that have called Write: those under way and
\* those that returned
C8_Frames == {th[t] : t \in {u \in Threads : th[u].pc \in {"write2", "unlock"}}}

C8_Calls == {hist[i] : i \in 1..Len(hist)}

\* C8: an admitted Handle call calls Write once, with the whole line, whether
\* the write succeeds or fails.
C8_OneWrite ==
  /\ \A c \in C8_Calls \cup C8_Frames : c.nw = 1 /\ c.wbuf = c.buf
  /\ \A t \in Threads : th[t].pc \in {"lock", "lockwait", "write", "skip"} => th[t].nw = 0

\* a write that failed after taking the first part of the line, and was not
\* tried again
C8_Witness ==
  \E i \in 1..Len(hist) :
    /\ hist[i].err # NoErr
    /\ hist[i].nw = 1
    /\ dest = Part1(hist[i].buf)

\* C9: Handle returns an error exactly when the record was admitted and Write
\* reported an error, and the error wraps that of Write; otherwise nil.
C9_ErrorIffWriteFailed ==
  /\ \A c \in C8_Calls \cup {th[t] : t \in {u \in Threads : th[u].pc = "unlock"}} :
       /\ c.res # NilRet <=> c.err # NoErr
       /\ c.err # NoErr => c.res.kind = "error" /\ c.res.wraps = c.err
  /\ \A t \in Threads : th[t].pc = "skip" => th[t].res = NilRet

C9_Witness ==
  /\ Len(hist) >= 2
  /\ hist[1].err \in WriteErrs /\ hist[1].res.kind = "error"
  /\ hist[1].res.wraps = hist[1].err
  /\ hist[2].err = NoErr /\ hist[2].res = NilRet

\* C10: when a Handle call that took the lock returns, with nil or with an
\* error, the lock of its handler is free and can be taken again.
C10_ReturnReleases ==
  [][\A t \in Threads :
       (th[t].pc = "unlock" /\ th'[t].pc = "idle")
         => /\ ~handlers'[th[t].h].mu.w
            /\ CanLock(handlers'[th[t].h].mu)]_vars

\* after a call whose write failed, the next call on that handler holds the
\* lock
C10_Witness ==
  /\ Len(hist) >= 1
  /\ hist[1].err # NoErr
  /\ \E t \in Threads : th[t].pc = "write" /\ th[t].h = hist[1].h

\* handler h has the level, the time format and the writer of handler p
C11_Inherited(h, p) ==
  /\ handlers[h].level = handlers[p].level
  /\ handlers[h].timeFormat = handlers[p].timeFormat
  /\ handlers[h].writer = handlers[p].writer

\* C11: every derived handler has the level, the time format and the writer
\* of the root it descends from; a child differs from its parent in its group
\* (WithGroup) or in its attributes (WithAttrs), and in nothing else.
C11_SameConfigAsRoot ==
  \A h \in HandlerIds :
    /\ C11_Inherited(h, Root(h))
    /\ born[h].from # 0 =>
         /\ C11_Inherited(h, born[h].from)
         /\ born[h].op = "WithAttrs" => handlers[h].group = handlers[born[h].from].group
         /\ born[h].op = "WithGroup" => handlers[h].attrs = handlers[born[h].from].attrs

\* two families with different levels, time formats and writers, one of them
\* two derivations deep below a root made with its own time format
C11_Witness ==
  \E g, h \in HandlerIds :
    /\ born[h].from # 0 /\ born[born[h].from].from # 0
    /\ born[h].op = "WithGroup" /\ born[born[h].from].op = "WithAttrs"
    /\ handlers[Root(h)].timeFormat # DefaultTimeFormat
    /\ handlers[Root(g)].level # handlers[Root(h)].level
    /\ handlers[Root(g)].writer # handlers[Root(h)].writer
    /\ handlers[Root(g)].timeFormat # handlers[Root(h)].timeFormat
    /\ handlers[h].group # handlers[Root(h)].group

\* the name given to the most recent WithGroup call in the derivation chain
\* of a handler
RECURSIVE ChainGroup(_)
ChainGroup(h) ==
  IF born[h].from = 0 THEN ""
  ELSE IF born[h].op = "WithGroup" THEN born[h].arg
  ELSE ChainGroup(born[h].from)

\* C15: the group of a handler is the name given to the most recent WithGroup
\* call in its derivation chain, and empty when there was none: WithGroup
\* replaces the group, it does not nest it, and WithAttrs keeps it.
C15_GroupReplaced ==
  \A h \in HandlerIds :
    /\ handlers[h].group = ChainGroup(h)
    /\ born[h].op = "WithGroup" => handlers[h].group = born[h].arg
    /\ born[h].op = "WithAttrs" => handlers[h].group = handlers[born[h].from].group

\* h.WithGroup(a).WithGroup(b).WithAttrs(..) with two different names: the
\* group is b
C15_Witness ==
  \E h \in HandlerIds :
    /\ born[h].op = "WithAttrs"
    /\ born[born[h].from].op = "WithGroup"
    /\ born[born[born[h].from].from].op = "WithGroup"
    /\ born[born[h].from].arg # ""
    /\ born[born[born[h].from].from].arg # ""
    /\ born[born[h].from].arg # born[born[born[h].from].from].arg
    /\ handlers[h].group = born[born[h].from].arg

\* C17: NewLogFormatHandler keeps the level and the writer it is given, keeps
\* the time format unless it is empty, when it takes DefaultTimeFormat, and
\* makes a handler with no attributes, no group and an unlocked mutex.
C17_NewDefaults ==
  \A h \in HandlerIds :
    born[h].op = "New" =>
      /\ handlers[h].level = born[h].arg.level
      /\ handlers[h].writer = born[h].arg.writer
      /\ handlers[h].timeFormat =
           (IF born[h].arg.timeFormat = "" THEN DefaultTimeFormat
            ELSE born[h].arg.timeFormat)
      /\ handlers[h].timeFormat # ""
      /\ Elems(arrays, handlers[h].attrs) = <<>>
      /\ handlers[h].attrs.len = 0
      /\ handlers[h].group = ""
      /\ handlers[h].mu = ZeroMutex
      /\ CanLock(handlers[h].mu) /\ ~RLockMustWait(handlers[h].mu)

\* a root made with an empty time format and one made with a time format of
\* its own, both after a handler with attributes and a group was derived
C17_Witness ==
  \E g, h, k \in HandlerIds :
    /\ g > k /\ h > k
    /\ born[g].op = "New" /\ born[g].arg.timeFormat = ""
    /\ handlers[g].timeFormat = DefaultTimeFormat
    /\ born[h].op = "New" /\ born[h].arg.timeFormat # ""
    /\ handlers[h].timeFormat = born[h].arg.timeFormat
    /\ born[k].op = "WithAttrs" /\ handlers[k].attrs.len > 0

\* the attributes with a key, and the segments " key=value" of a sequence of
\* attributes
Kept(as) == SelectSeq(as, LAMBDA a : a.key # "")

RECURSIVE Segments(_)
Segments(as) ==
  IF as = <<>> THEN <<>>
  ELSE <<" ", as[1].key, "=", as[1].val>> \o Segments(Tail(as))

\* where the message stands in the line a handler writes, and what follows
\* it up to the end of the line
MsgAt(h) ==
  (IF h.timeFormat = DefaultTimeFormat THEN 2 ELSE 0)
  + 5 + (IF h.group # "" THEN 3 ELSE 0)

AttrPart(f) == SubSeq(f.buf, MsgAt(handlers[f.h]) + 1, Len(f.buf) - 1)

\* the attributes given to the WithAttrs calls of the derivation chain of a
\* handler, in the order of the calls
RECURSIVE ChainOwn(_)
ChainOwn(h) == IF born[h].from = 0 THEN <<>> ELSE ChainOwn(born[h].from) \o born[h].own

\* C12: in the line Handle writes, the attributes of the record come first,
\* in their order, then the attributes given to the WithAttrs calls of the
\* derivation chain of the handler, in the order of the chain.
C12_RecordThenChain ==
  \A t \in Threads :
    InHandle(t) =>
      AttrPart(th[t]) = Segments(Kept(th[t].arg.attrs))
                        \o Segments(Kept(ChainOwn(th[t].h)))

\* the number of newline characters in a string of the model
NewlinesIn(s) ==
  IF s = "\n" THEN 1
  ELSE IF s = "first\nsecond" THEN 1
  ELSE 0

RECURSIVE CountNewlines(_)
CountNewlines(buf) ==
  IF buf = <<>> THEN 0 ELSE NewlinesIn(buf[1]) + CountNewlines(Tail(buf))

\* C13: the bytes Handle writes for an admitted record hold one newline
\* character, which is the last byte, and no separator stands before it.
C13_OneLine ==
  \A t \in Threads :
    InHandle(t) =>
      /\ CountNewlines(th[t].buf) = 1
      /\ th[t].buf[Len(th[t].buf)] = "\n"
      /\ th[t].buf[Len(th[t].buf) - 1] \notin {" ", "] "}

\* C14: an attribute without a key, of the record or of the handler, is not
\* written and is no error; every attribute with a key is written.
C14_EmptyKeySkipped ==
  \A t \in Threads :
    InHandle(t) =>
      LET f == th[t]
      IN /\ AttrPart(f) = Segments(Kept(f.arg.attrs))
                          \o Segments(Kept(Elems(arrays, handlers[f.h].attrs)))
         /\ \A i \in 2..Len(f.buf) : f.buf[i] = "=" => f.buf[i - 1] # ""
         /\ (f.pc = "unlock" /\ f.err = NoErr) => f.res = NilRet

\* a call that returns nil for a record and a handler that both hold an
\* attribute without a key among attributes with a key
C14_Witness ==
  \E t \in Threads :
    /\ th[t].pc = "unlock" /\ th[t].err = NoErr /\ th[t].res = NilRet
    /\ \E i \in 1..Len(th[t].arg.attrs) : th[t].arg.attrs[i].key = ""
    /\ \E i \in 1..handlers[th[t].h].attrs.len :
         Elems(arrays, handlers[th[t].h].attrs)[i].key = ""
    /\ AttrPart(th[t]) = <<" ", "a", "=", "1", " ", "b", "=", "2",
                           " ", "code", "=", "123">>

\* the name of a level in the line
LevelName(l) ==
  IF l = LevelDebug THEN "DEBUG" ELSE IF l = LevelInfo THEN "INFO" ELSE "ERROR"

\* C16: "[group] " stands between the level name and the message exactly when
\* the group of the handler is not empty; with an empty group the message
\* follows the level name after one space.
C16_GroupSegment ==
  \A t \in Threads :
    InHandle(t) =>
      LET f == th[t]
          h == handlers[f.h]
          n == IF h.timeFormat = DefaultTimeFormat THEN 3 ELSE 1
      IN /\ SubSeq(f.buf, n + 1, n + 3) = <<" ", LevelName(f.arg.level), " ">>
         /\ IF h.group # ""
              THEN SubSeq(f.buf, n + 4, n + 7) = <<"[", h.group, "] ", f.arg.msg>>
              ELSE f.buf[n + 4] = f.arg.msg

\* a line with a group segment, written by a handler made by WithGroup
C16_Witness ==
  \E t \in Threads :
    /\ InHandle(t)
    /\ born[th[t].h].op = "WithGroup"
    /\ handlers[th[t].h].group = "TestGroup"
    /\ \E i \in 1..Len(th[t].buf) : th[t].buf[i] = "["

\* a mutex is write-locked only while a Handle call on its handler is
\* between Lock and the deferred Unlock
NoOrphanLock ==
  \A h \in HandlerIds :
    handlers[h].mu.w =>
      \E t \in Threads :
        th[t].h = h /\ th[t].pc \in {"lockwait", "write", "write2", "unlock"}

\* C18: under a fair scheduler, with every Write call returning, every
\* admitted Handle call returns, on a root and on a derived handler alike.
C18_HandleReturns ==
  \A t \in Threads : InHandle(t) ~> ~InHandle(t)

\* the calls that have written, or tried to
C19_Written == C8_Calls \cup C8_Frames

\* a call that returned before another call of its family was made wrote its
\* last byte before the first byte of that call; the line of a call whose
\* write was accepted is in the destination where the call wrote it
C19_InOrder ==
  /\ \A i \in 1..Len(hist) : \A b \in C19_Written :
       (i <= b.seen /\ Root(hist[i].h) = Root(b.h)) => hist[i].hi <= b.lo
  /\ \A a \in C8_Calls :
       a.err = NoErr =>
         /\ a.hi <= Len(dest)
         /\ SubSeq(dest, a.lo + 1, a.lo + Len(a.buf) - 1) = Part1(a.buf)
         /\ dest[a.hi] = "\n"

\* a step keeps what the destination holds and adds to its end
C19_AppendOnly ==
  /\ Len(dest') >= Len(dest)
  /\ SubSeq(dest', 1, Len(dest)) = dest

====
